---- MODULE Spec2Model ----
(***************************************************************************)
(* Model of src/main.py: the PasswordStrengthChecker (four scoring checks  *)
(* over a password string) and the AppWindow that shows their results in   *)
(* the rows registered in the global lists CONTROLS and STATUS.            *)
(*                                                                         *)
(* A Python string is a sequence of characters, each character a one-      *)
(* element TLA+ string; the grave accent and the non-ASCII characters of   *)
(* the special-symbol set are named by code point ("U+0060", "U+00FE").    *)
(* Python lists are 0-based: list[i] is written Item(list, i).             *)
(***************************************************************************)
EXTENDS Integers, Sequences, FiniteSets, TLC

VARIABLES checker, results, CONTROLS, STATUS, win, page, pc, event

vars == <<checker, results, CONTROLS, STATUS, win, page, pc, event>>

-----------------------------------------------------------------------------
(* Bounds of the model.                                                    *)

\* Every string over Alphabet of length 0..MaxLen is an input of a checker.
MaxLen == 3
\* Longer inputs are a pattern of 1 or 2 characters repeated to a length of
\* 0..MaxPadLen, so that every bucket of length_check and its edges occur.
MaxPadLen == 17
\* Sessions of the application (each runs main and builds one AppWindow).
MaxWindows == 2
\* The callers of SpecNull pass every string over Alphabet of length
\* 0..MaxShort.
MaxShort == 2

-----------------------------------------------------------------------------
(* Python values.                                                          *)

None == [tag |-> "NoneType"]
Str(s) == [tag |-> "str", val |-> s]
Return(n) == [tag |-> "return", val |-> n]
Raise(exc) == [tag |-> "raise", exc |-> exc]
NotCalled == [tag |-> "not called"]

\* Python truthiness of None or a string: None and "" are falsy.
Truthy(x) == x.tag = "str" /\ x.val # <<>>

\* x or d
Or(x, d) == IF Truthy(x) THEN x ELSE d

\* list[i], 0-based
Item(list, i) == list[i + 1]

\* p[i:j] for 0 <= i <= j: a slice is cut at the end of p and never raises.
Slice(p, i, j) ==
    LET hi == IF j < Len(p) THEN j ELSE Len(p)
    IN  IF i >= hi THEN <<>> ELSE SubSeq(p, i + 1, hi)

\* set(p)
SetOf(p) == {p[k] : k \in 1..Len(p)}

-----------------------------------------------------------------------------
(* Characters.                                                             *)

lower == {"a","b","c","d","e","f","g","h","i","j","k","l","m",
          "n","o","p","q","r","s","t","u","v","w","x","y","z"}
upper == {"A","B","C","D","E","F","G","H","I","J","K","L","M",
          "N","O","P","Q","R","S","T","U","V","W","X","Y","Z"}
digits == {"0","1","2","3","4","5","6","7","8","9"}
special == {"~","U+0060","!","@","#","$","%","^","&","*","(",")","-","_",
            "U+00FE","U+02BC","U+00AB","U+00E6","U+2026",
            "+","=","{","}","[","]","|","/","\\",":",";",">","<",".","?"}

\* Unicode properties used by str.isdigit, str.islower and str.isupper, for
\* the characters above and the space: thorn (U+00FE) and ae (U+00E6) are
\* lowercase letters; no other special symbol is cased or a digit.
IsDigitChar(c) == c \in digits
IsLowerChar(c) == c \in lower \cup {"U+00FE", "U+00E6"}
IsUpperChar(c) == c \in upper

\* str.isdigit(): non-empty and every character a digit.
isdigit(s) == s # <<>> /\ \A k \in 1..Len(s) : IsDigitChar(s[k])
\* str.islower(): no uppercase character and at least one lowercase one.
islower(s) ==
    /\ \A k \in 1..Len(s) : ~IsUpperChar(s[k])
    /\ \E k \in 1..Len(s) : IsLowerChar(s[k])
\* str.isupper(): no lowercase character and at least one uppercase one.
isupper(s) ==
    /\ \A k \in 1..Len(s) : ~IsLowerChar(s[k])
    /\ \E k \in 1..Len(s) : IsUpperChar(s[k])

-----------------------------------------------------------------------------
(* PasswordStrengthChecker.                                                *)

\* Mutant of __init__: the argument is stored as given (no `or ""`).
PasswordStrengthChecker_as_given(password) ==
    [tag |-> "PasswordStrengthChecker", password |-> password]

PasswordStrengthChecker(password) ==
    [tag |-> "PasswordStrengthChecker", password |-> Or(password, Str(<<>>))]

\* Mutant of length_check: the first two buckets end one early
\* (n < 7, n < 11), so 7 and 11 fall into the next bucket.
length_check_early_edges(self) ==
    IF self.password.tag # "str" THEN Raise("TypeError") ELSE
    LET n == Len(self.password.val)
    IN  IF 0 < n /\ n < 7 THEN Return(0)
        ELSE IF 7 <= n /\ n < 11 THEN Return(1)
        ELSE IF 11 <= n /\ n < 16 THEN Return(2)
        ELSE IF n >= 16 THEN Return(3)
        ELSE Return(0)

\* len(x) and set(x) raise TypeError on None.
length_check(self) ==
    IF self.password.tag # "str" THEN Raise("TypeError") ELSE
    LET n == Len(self.password.val)
    IN  IF 0 < n /\ n < 8 THEN Return(0)
        ELSE IF 8 <= n /\ n < 12 THEN Return(1)
        ELSE IF 12 <= n /\ n < 16 THEN Return(2)
        ELSE IF n >= 16 THEN Return(3)
        ELSE Return(0)

\* Mutant of character_check: scans the password instead of its set of
\* characters and adds one per character of a class.
RECURSIVE count_class_chars(_, _)
count_class_chars(p, i) ==
    IF i >= Len(p) THEN 0
    ELSE (IF Item(p, i) \in lower \cup upper \cup digits \cup special THEN 1 ELSE 0)
         + count_class_chars(p, i + 1)

character_check_per_char(self) ==
    IF self.password.tag # "str" THEN Raise("TypeError") ELSE
    LET score == count_class_chars(self.password.val, 0)
    IN  CASE score = 1 -> Return(0)
          [] score = 2 -> Return(1)
          [] score = 3 -> Return(2)
          [] score = 4 -> Return(3)
          [] OTHER -> Return(0)

character_check(self) ==
    IF self.password.tag # "str" THEN Raise("TypeError") ELSE
    LET chars == SetOf(self.password.val)
        score == (IF \E c \in chars : c \in lower THEN 1 ELSE 0)
               + (IF \E c \in chars : c \in upper THEN 1 ELSE 0)
               + (IF \E c \in chars : c \in digits THEN 1 ELSE 0)
               + (IF \E c \in chars : c \in special THEN 1 ELSE 0)
    IN  CASE score = 1 -> Return(0)
          [] score = 2 -> Return(1)
          [] score = 3 -> Return(2)
          [] score = 4 -> Return(3)
          [] OTHER -> Return(0)

\* for i in range(stop): the body at i, from i to the end of the range.
RECURSIVE repeat_loop(_, _, _)
repeat_loop(p, i, stop) ==
    IF i >= stop THEN Return(1)
    ELSE IF i + 1 >= Len(p) THEN Raise("IndexError")
    ELSE IF Item(p, i) # Item(p, i + 1) THEN repeat_loop(p, i + 1, stop)
    ELSE IF i + 2 >= Len(p) THEN Raise("IndexError")
    ELSE IF Item(p, i + 1) = Item(p, i + 2) THEN Return(0)
    ELSE repeat_loop(p, i + 1, stop)

\* Mutant of repeat_check: once the window handled a password change, the
\* text of that event is scanned instead of self.password.
repeat_check_of_last_event(self) ==
    LET p == IF event = None THEN self.password ELSE Or(event.data, Str(<<>>))
    IN  IF ~Truthy(p) THEN Return(2)
        ELSE repeat_loop(p.val, 0, Len(p.val) - 2)

\* Mutant of repeat_check: the loop runs over range(len(p) - 3) and misses
\* the last window.
repeat_check_short_range(self) ==
    LET p == self.password
    IN  IF ~Truthy(p) THEN Return(2)
        ELSE repeat_loop(p.val, 0, Len(p.val) - 3)

repeat_check(self) ==
    LET p == self.password
    IN  IF ~Truthy(p) THEN Return(2)
        ELSE repeat_loop(p.val, 0, Len(p.val) - 2)

RECURSIVE sequential_loop(_, _, _)
sequential_loop(p, i, stop) ==
    IF i >= stop THEN Return(1)
    ELSE LET chunk == Slice(p, i, i + 3)
         IN  IF isdigit(chunk) \/ islower(chunk) \/ isupper(chunk)
             THEN Return(0)
             ELSE sequential_loop(p, i + 1, stop)

\* Mutant of sequential_check: only runs of digits are looked for.
RECURSIVE sequential_loop_digits(_, _, _)
sequential_loop_digits(p, i, stop) ==
    IF i >= stop THEN Return(1)
    ELSE IF isdigit(Slice(p, i, i + 3)) THEN Return(0)
    ELSE sequential_loop_digits(p, i + 1, stop)

sequential_check_digits_only(self) ==
    LET p == self.password
    IN  IF ~Truthy(p) THEN Return(2)
        ELSE sequential_loop_digits(p.val, 0, Len(p.val) - 2)

sequential_check(self) ==
    LET p == self.password
    IN  IF ~Truthy(p) THEN Return(2)
        ELSE sequential_loop(p.val, 0, Len(p.val) - 2)

-----------------------------------------------------------------------------
(* Inputs.                                                                 *)

\* One or two characters of every kind the checks tell apart: lowercase,
\* uppercase, digit, uncased special symbol, the lowercase special symbol
\* thorn, and the space, which is in none of the four classes.
Alphabet == {"a", "b", "A", "1", "!", "U+00FE", " "}

BoundedSeq(S, n) == UNION {[1..k -> S] : k \in 0..n}

\* The pattern u repeated and cut to length n.
Pad(u, n) == [k \in 1..n |-> u[((k - 1) % Len(u)) + 1]]

Pads == {Pad(u, n) : u \in BoundedSeq(Alphabet, 2) \ {<<>>}, n \in 0..MaxPadLen}

Tr0ub4dor == <<"T","r","0","u","b","4","d","o","r","&","3">>
a1B2 == <<"a","1","B","2">>
abcABC123 == <<"a","b","c","A","B","C","1","2","3">>

Samples ==
    { Tr0ub4dor, a1B2, abcABC123,
      <<"a","b","c">>, <<"a","a","a">>,
      <<"a","b","c","A","B","C">>,
      <<"a","b","c","a","b","c">>,
      <<"a","b","c","A","B","C","1","2","3","!","@","#">>,
      <<"b","a","a","a">>, <<"a","a","b","b","b">>,
      <<"a","A","1","1","1">>, <<"1","1","!","a","b">>,
      <<" ","a"," ","A","A","a"," ">> }

CheckerInputs ==
    {None} \cup {Str(s) : s \in BoundedSeq(Alphabet, MaxLen) \cup Pads \cup Samples}

CheckerIds == {1, 2}
Sessions == 1..MaxWindows

-----------------------------------------------------------------------------
(* State.                                                                  *)
(*   checker[c]  a PasswordStrengthChecker object held by some caller, or  *)
(*               None before it is constructed                             *)
(*   results[c]  what the caller of checker c has seen: the constructor's  *)
(*               argument and the value each check returned last           *)
(*   CONTROLS, STATUS  the two global lists                                *)
(*   win[s], page[s], pc[s]  the AppWindow and the page of session s and   *)
(*               how far its main has run                                  *)
(*   event       the last password-change event handled: its data and the  *)
(*               four scores check_password computed                       *)
(***************************************************************************)

NoResults ==
    [arg |-> None, length_check |-> NotCalled, character_check |-> NotCalled,
     repeat_check |-> NotCalled, sequential_check |-> NotCalled]

Init ==
    /\ checker = [c \in CheckerIds |-> None]
    /\ results = [c \in CheckerIds |-> NoResults]
    /\ CONTROLS = <<>>
    /\ STATUS = <<>>
    /\ win = [s \in Sessions |-> None]
    /\ page = [s \in Sessions |-> None]
    /\ pc = [s \in Sessions |-> [at |-> "idle", n |-> 0]]
    /\ event = None

uiVars == <<CONTROLS, STATUS, win, page, pc, event>>

-----------------------------------------------------------------------------
(* A caller of the checker: constructs one, then calls its checks in any   *)
(* order, any number of times.                                             *)

Constructed(c) == checker[c] # None

New(c, password) ==
    /\ ~Constructed(c)
    /\ checker' = [checker EXCEPT ![c] = PasswordStrengthChecker(password)]
    /\ results' = [results EXCEPT ![c] = [NoResults EXCEPT !.arg = password]]
    /\ UNCHANGED uiVars

CallLength(c) ==
    /\ Constructed(c)
    /\ results' = [results EXCEPT ![c].length_check = length_check(checker[c])]
    /\ UNCHANGED <<checker, uiVars>>

CallCharacter(c) ==
    /\ Constructed(c)
    /\ results' = [results EXCEPT ![c].character_check = character_check(checker[c])]
    /\ UNCHANGED <<checker, uiVars>>

CallRepeat(c) ==
    /\ Constructed(c)
    /\ results' = [results EXCEPT ![c].repeat_check = repeat_check(checker[c])]
    /\ UNCHANGED <<checker, uiVars>>

CallSequential(c) ==
    /\ Constructed(c)
    /\ results' = [results EXCEPT ![c].sequential_check = sequential_check(checker[c])]
    /\ UNCHANGED <<checker, uiVars>>

Calls(c) ==
    \/ CallLength(c)
    \/ CallCharacter(c)
    \/ CallRepeat(c)
    \/ CallSequential(c)

\* One caller, every input.
NextChecker ==
    \/ \E password \in CheckerInputs : New(1, password)
    \/ Calls(1)

SpecChecker == Init /\ [][NextChecker]_vars

-----------------------------------------------------------------------------
(* The global registries and the rows store_control collects.              *)

\* The Row check_criteria_display returns for check `check` (0..3) of
\* window w: its title, and the bar, the container at .controls[1].controls[0].
CriteriaTitles ==
    <<"1. Length Check", "2. Character Check", "3. Repeat Checker",
      "4. Sequential Checker">>

check_criteria_display(w, check) ==
    [window |-> w, check |-> check, criteria |-> Item(CriteriaTitles, check),
     bar |-> [bgcolor |-> "TRANSPARENT", width |-> 0, opacity |-> 0]]

\* The Row check_status_display returns: the box, the container at
\* .controls[0], with its opacity and the value of the Checkbox in it.
check_status_display(w, check) ==
    [window |-> w, check |-> check, box |-> [opacity |-> 0, value |-> "None"]]

\* Mutant of store_control: the control flag is ignored and every reference
\* goes to CONTROLS.
store_control_ignores_flag(C, S, reference, control) ==
    <<Append(C, reference), S>>

\* store_control's wrapper after the wrapped function returned `reference`:
\* the lists <<CONTROLS, STATUS>> it leaves.  control is kwargs.get("control", 0).
store_control(C, S, reference, control) ==
    IF control = 0 THEN <<Append(C, reference), S>>
    ELSE <<C, Append(S, reference)>>

-----------------------------------------------------------------------------
(* AppWindow: the UI update helpers.  Each takes the lists C (CONTROLS)    *)
(* and S (STATUS) and gives the pair of lists it leaves.                   *)

criteria_satisfied(S, index, status) ==
    IF index >= Len(S) THEN S
    ELSE IF status = 3
         THEN [S EXCEPT ![index + 1].box = [opacity |-> 1, value |-> "True"]]
         ELSE [S EXCEPT ![index + 1].box = [opacity |-> 0, value |-> "False"]]

\* The bar of a four-tier check (length, character) for a strength.
TierBar(bar, strength) ==
    LET b == CASE strength = 0 -> [bar EXCEPT !.bgcolor = "RED", !.width = 40]
               [] strength = 1 -> [bar EXCEPT !.bgcolor = "YELLOW", !.width = 70]
               [] strength = 2 -> [bar EXCEPT !.bgcolor = "GREEN_400", !.width = 100]
               [] strength = 3 -> [bar EXCEPT !.bgcolor = "GREEN_900", !.width = 130]
               [] OTHER -> [bar EXCEPT !.width = 0]
    IN  [b EXCEPT !.opacity = 1]

\* The bar of a pass/fail check (repeat, sequential) for a strength.
PassFailBar(bar, strength) ==
    LET b == CASE strength = 0 -> [bar EXCEPT !.bgcolor = "RED", !.width = 65]
               [] strength = 1 -> [bar EXCEPT !.bgcolor = "GREEN_900", !.width = 130]
               [] OTHER -> [bar EXCEPT !.width = 0]
    IN  [b EXCEPT !.opacity = 1]

password_length_status(C, S, strength) ==
    IF Len(C) = 0 THEN <<C, S>>
    ELSE << [C EXCEPT ![1].bar = TierBar(@, strength)],
            criteria_satisfied(S, 0, strength) >>

character_check_status(C, S, strength) ==
    IF Len(C) < 2 THEN <<C, S>>
    ELSE << [C EXCEPT ![2].bar = TierBar(@, strength)],
            criteria_satisfied(S, 1, strength) >>

\* Mutant of repeat_check_status: the strength is passed on as it is.
repeat_check_status_no_remap(C, S, strength) ==
    IF Len(C) < 3 THEN <<C, S>>
    ELSE << [C EXCEPT ![3].bar = PassFailBar(@, strength)],
            criteria_satisfied(S, 2, strength) >>

repeat_check_status(C, S, strength) ==
    IF Len(C) < 3 THEN <<C, S>>
    ELSE << [C EXCEPT ![3].bar = PassFailBar(@, strength)],
            criteria_satisfied(S, 2, IF strength = 1 THEN 3 ELSE strength) >>

sequential_check_status(C, S, strength) ==
    IF Len(C) < 4 THEN <<C, S>>
    ELSE << [C EXCEPT ![4].bar = PassFailBar(@, strength)],
            criteria_satisfied(S, 3, IF strength = 1 THEN 3 ELSE strength) >>

\* check_password(e): the checker it makes, the four scores in the order it
\* computes them, and the lists it leaves.  A check that raised would end
\* the handler there, the later status updates not made.
check_password(C, S, data) ==
    LET chk == PasswordStrengthChecker(Or(data, Str(<<>>)))
        r1 == length_check(chk)
        a1 == IF r1.tag = "return" THEN password_length_status(C, S, r1.val) ELSE <<C, S>>
        r2 == IF r1.tag = "return" THEN character_check(chk) ELSE NotCalled
        a2 == IF r2.tag = "return" THEN character_check_status(a1[1], a1[2], r2.val) ELSE a1
        r3 == IF r2.tag = "return" THEN repeat_check(chk) ELSE NotCalled
        a3 == IF r3.tag = "return" THEN repeat_check_status(a2[1], a2[2], r3.val) ELSE a2
        r4 == IF r3.tag = "return" THEN sequential_check(chk) ELSE NotCalled
        a4 == IF r4.tag = "return" THEN sequential_check_status(a3[1], a3[2], r4.val) ELSE a3
    IN  [C |-> a4[1], S |-> a4[2], scores |-> <<r1, r2, r3, r4>>]

\* Mutant of toggle_view: the field's password flag is not updated.
toggle_view_no_mask(self) ==
    LET show == ~self.show_password
        flipped == [self EXCEPT !.show_password = show]
    IN  IF self.password_field = None \/ self.page = None THEN flipped
        ELSE [flipped EXCEPT
                !.eye_icon = IF show THEN "VISIBILITY" ELSE "VISIBILITY_OFF"]

\* toggle_view(e): the window it leaves; eye_icon is the icon of the button
\* clicked, e.control.
toggle_view(self) ==
    LET show == ~self.show_password
        flipped == [self EXCEPT !.show_password = show]
    IN  IF self.password_field = None \/ self.page = None THEN flipped
        ELSE [flipped EXCEPT
                !.password_field.password = ~show,
                !.eye_icon = IF show THEN "VISIBILITY" ELSE "VISIBILITY_OFF"]

\* copy_password(e): the page it leaves.  page.set_clipboard is callable and
\* an exception of it is swallowed; the snackbar's content is its text.
copy_password(self, pg) ==
    IF self.password_field = None \/ self.page = None THEN pg
    ELSE LET text == Or(self.password_field.value, Str(<<>>))
             copied == [pg EXCEPT !.clipboard = text]
         IN  IF pg.snack_bar # None
             THEN [copied EXCEPT
                     !.snack_bar = [content |-> "Password copied to clipboard",
                                    bgcolor |-> "GREEN_400", open |-> TRUE]]
             ELSE [copied EXCEPT
                     !.snack_bar = [content |-> "Password copied to clipboard",
                                    bgcolor |-> "None", open |-> TRUE]]

-----------------------------------------------------------------------------
(* main(page) of a session, step by step, and the events of its window.    *)
(* The program is single-threaded: while one session's main runs, no other *)
(* main starts and no event is handled; a window gets events once main has *)
(* added it to its page.  Sessions are numbered in the order they begin.   *)

\* References to the page and to the AppWindow of session s.
PageOf(s) == [tag |-> "Page", session |-> s]
AppWindowOf(s) == [tag |-> "AppWindow", session |-> s]

At(s, where) == pc[s].at = where
Quiet == \A t \in Sessions : pc[t].at \in {"idle", "running"}
Running(s) == At(s, "running") /\ Quiet

\* main: page.snack_bar = SnackBar(Text(""), open=False), then AppWindow()
\* up to the state assignments of __init__.
main_begin(s) ==
    /\ At(s, "idle") /\ Quiet
    /\ \A t \in Sessions : t < s => ~At(t, "idle")
    /\ page' = [page EXCEPT ![s] =
                  [snack_bar |-> [content |-> "", bgcolor |-> "None", open |-> FALSE],
                   clipboard |-> None, controls |-> <<>>]]
    /\ win' = [win EXCEPT ![s] =
                 [show_password |-> FALSE, password_field |-> None, page |-> None,
                  eye_icon |-> "None"]]
    /\ pc' = [pc EXCEPT ![s] = [at |-> "password_strength_display", n |-> 0]]
    /\ UNCHANGED <<checker, results, CONTROLS, STATUS, event>>

\* password_strength_display makes eight decorated calls, a criteria row
\* (control=0) and a status row (control=1) for each check in turn; n counts
\* the calls made.
BuiltRows(s) ==
    IF pc[s].n = 7 THEN [at |-> "password_input_display", n |-> 0]
    ELSE [pc[s] EXCEPT !.n = @ + 1]

call_check_criteria_display(s) ==
    /\ At(s, "password_strength_display") /\ pc[s].n % 2 = 0
    /\ LET lists == store_control(CONTROLS, STATUS,
                                  check_criteria_display(s, pc[s].n \div 2), 0)
       IN  CONTROLS' = lists[1] /\ STATUS' = lists[2]
    /\ pc' = [pc EXCEPT ![s] = BuiltRows(s)]
    /\ UNCHANGED <<checker, results, win, page, event>>

call_check_status_display(s) ==
    /\ At(s, "password_strength_display") /\ pc[s].n % 2 = 1
    /\ LET lists == store_control(CONTROLS, STATUS,
                                  check_status_display(s, pc[s].n \div 2), 1)
       IN  CONTROLS' = lists[1] /\ STATUS' = lists[2]
    /\ pc' = [pc EXCEPT ![s] = BuiltRows(s)]
    /\ UNCHANGED <<checker, results, win, page, event>>

\* password_input_display: the eye button's icon from show_password, and the
\* TextField of password_text_field_display, made once with password=True.
password_input_display(s) ==
    /\ At(s, "password_input_display")
    /\ LET self == win[s]
           view_icon_name ==
               IF self.show_password THEN "VISIBILITY" ELSE "VISIBILITY_OFF"
           field ==
               IF self.password_field # None THEN self.password_field
               ELSE [tag |-> "TextField", password |-> TRUE, value |-> None]
       IN  win' = [win EXCEPT ![s] =
                     [self EXCEPT !.eye_icon = view_icon_name,
                                  !.password_field = field]]
    /\ pc' = [pc EXCEPT ![s] = [at |-> "built", n |-> 0]]
    /\ UNCHANGED <<checker, results, CONTROLS, STATUS, page, event>>

\* main after AppWindow(): app.page = page, page.add(app), page.update().
main_attach(s) ==
    /\ At(s, "built")
    /\ win' = [win EXCEPT ![s].page = PageOf(s)]
    /\ page' = [page EXCEPT ![s].controls = Append(@, AppWindowOf(s))]
    /\ pc' = [pc EXCEPT ![s] = [at |-> "running", n |-> 0]]
    /\ UNCHANGED <<checker, results, CONTROLS, STATUS, event>>

Main(s) ==
    \/ main_begin(s)
    \/ call_check_criteria_display(s)
    \/ call_check_status_display(s)
    \/ password_input_display(s)
    \/ main_attach(s)

\* The user changes the text of the field of window s: the field holds the
\* new value and its on_change handler, check_password, gets it as e.data.
on_change(s, data) ==
    /\ Running(s)
    /\ LET r == check_password(CONTROLS, STATUS, data)
       IN  /\ CONTROLS' = r.C
           /\ STATUS' = r.S
           /\ event' = [data |-> data, scores |-> r.scores]
    /\ win' = [win EXCEPT ![s].password_field.value = data]
    /\ UNCHANGED <<checker, results, page, pc>>

\* The user clicks the eye button of window s.
click_toggle_view(s) ==
    /\ Running(s)
    /\ win' = [win EXCEPT ![s] = toggle_view(@)]
    /\ UNCHANGED <<checker, results, CONTROLS, STATUS, page, pc, event>>

\* The user clicks the copy button of window s.
click_copy_password(s) ==
    /\ Running(s)
    /\ page' = [page EXCEPT ![s] = copy_password(win[s], @)]
    /\ UNCHANGED <<checker, results, CONTROLS, STATUS, win, pc, event>>

\* A password every check scores at its top: 16 characters of four classes,
\* every window of three holding a lowercase and an uppercase letter.
Top16 == Pad(<<"a","A","1","a","A","!">>, 16)

Events(s, Data) ==
    \/ \E data \in Data : on_change(s, data)
    \/ click_toggle_view(s)
    \/ click_copy_password(s)

\* Event data of the application: missing, empty, a password that fails the
\* repeat and the sequential check, two of the middle tiers (length 1 with
\* character 1, length 2 with character 2), and one of the top tier.
UIData ==
    {None, Str(<<>>), Str(<<"a","a","a">>), Str(Pad(<<"a","A">>, 8)),
     Str(Pad(<<"a","A","1">>, 12)), Str(Top16)}

\* The program as ft.app(target=main) runs it: main once, then the events
\* of its window.
Next ==
    \/ Main(1)
    \/ Events(1, UIData)

Spec == Init /\ [][Next]_vars

\* Several sessions, each running main on its own page: every AppWindow
\* registers its rows in the same two global lists.
SessionData == {None, Str(Top16)}

NextSessions ==
    \E s \in Sessions :
        \/ Main(s)
        \/ Events(s, SessionData)

SpecSessions == Init /\ [][NextSessions]_vars

\* A caller of a checker beside a window that handles password changes:
\* inputs missing, empty and of length up to MaxShort.
NullInputs == {None} \cup {Str(p) : p \in BoundedSeq(Alphabet, MaxShort)}
NullData == {None, Str(<<>>)}

NextNull ==
    \/ \E password \in NullInputs : New(1, password)
    \/ Calls(1)
    \/ Main(1)
    \/ \E data \in NullData : on_change(1, data)

SpecNull == Init /\ [][NextNull]_vars

\* Two callers, each with a checker of its own, beside the application and
\* its events.
PureInputs == {None, Str(<<"a","a","a">>)}
PureData == {None, Str(<<"a","a","a">>)}

NextPure ==
    \/ \E c \in CheckerIds :
          \/ \E password \in PureInputs : New(c, password)
          \/ Calls(c)
    \/ Main(1)
    \/ Events(1, PureData)

SpecPure == Init /\ [][NextPure]_vars

-----------------------------------------------------------------------------
(* Claims about the four checks, under SpecChecker.                        *)

Called(r) == r # NotCalled
Pwd(c) == checker[c].password.val

\* A window of three characters, all digits, or all lowercase letters, or
\* all uppercase letters, starts at the 1-based index i of p.
SameClassWindow(p, i) ==
    \/ \A k \in i..(i + 2) : IsDigitChar(p[k])
    \/ \A k \in i..(i + 2) : IsLowerChar(p[k])
    \/ \A k \in i..(i + 2) : IsUpperChar(p[k])

\* C1: sequential_check returns 2 for the empty password, 0 exactly when
\* some window of three consecutive characters is three digits, three
\* lowercase letters or three uppercase letters, and 1 otherwise.
C1_SequentialSameClassWindows ==
    \A c \in CheckerIds :
        (Constructed(c) /\ Called(results[c].sequential_check)) =>
            results[c].sequential_check =
                Return(IF Pwd(c) = <<>> THEN 2
                       ELSE IF \E i \in 1..(Len(Pwd(c)) - 2) : SameClassWindow(Pwd(c), i)
                            THEN 0
                            ELSE 1)

AllCalled(c) ==
    /\ Called(results[c].length_check)
    /\ Called(results[c].character_check)
    /\ Called(results[c].repeat_check)
    /\ Called(results[c].sequential_check)

Scores(c) ==
    <<results[c].length_check, results[c].character_check,
      results[c].repeat_check, results[c].sequential_check>>

\* C2 as stated: for "Tr0ub4dor&3" the checks return length 1, character 3,
\* repeat 1 and sequential 1.
C2_Tr0ub4dorAsStated ==
    \A c \in CheckerIds :
        (Constructed(c) /\ Pwd(c) = Tr0ub4dor /\ AllCalled(c)) =>
            Scores(c) = <<Return(1), Return(3), Return(1), Return(1)>>

\* C2 amended: for "Tr0ub4dor&3" the checks return length 1, character 3,
\* repeat 1 and sequential 0 (the window "dor" is three lowercase letters).
C2_Tr0ub4dorScores ==
    \A c \in CheckerIds :
        (Constructed(c) /\ Pwd(c) = Tr0ub4dor) =>
            /\ Called(results[c].length_check) => results[c].length_check = Return(1)
            /\ Called(results[c].character_check) => results[c].character_check = Return(3)
            /\ Called(results[c].repeat_check) => results[c].repeat_check = Return(1)
            /\ Called(results[c].sequential_check) => results[c].sequential_check = Return(0)

C2_Witness ==
    /\ Constructed(1) /\ Pwd(1) = Tr0ub4dor /\ AllCalled(1)
    /\ results[1].sequential_check = Return(0)

\* The bucket of a length, as the claim tabulates it.
LengthBucket(n) ==
    IF n <= 7 THEN 0 ELSE IF n <= 11 THEN 1 ELSE IF n <= 15 THEN 2 ELSE 3

\* C3: length_check returns 0 for n = 0 and 1 <= n <= 7, 1 for 8..11, 2 for
\* 12..15 and 3 from 16 on, whatever the characters are.
C3_LengthBuckets ==
    \A c \in CheckerIds :
        (Constructed(c) /\ Called(results[c].length_check)) =>
            results[c].length_check = Return(LengthBucket(Len(Pwd(c))))

C3_Witness ==
    /\ Constructed(1) /\ Len(Pwd(1)) = 16 /\ \E k \in 1..16 : Pwd(1)[k] # Pwd(1)[1]
    /\ results[1].length_check = Return(3)

\* The number of the four classes that have a character in p.
ClassesPresent(p) ==
    Cardinality({cl \in {lower, upper, digits, special} : SetOf(p) \cap cl # {}})

\* C4: character_check returns max(k - 1, 0) for k the number of classes
\* present; characters of no class, order and multiplicity do not count.
C4_CharacterClasses ==
    \A c \in CheckerIds :
        (Constructed(c) /\ Called(results[c].character_check)) =>
            LET k == ClassesPresent(Pwd(c))
            IN  results[c].character_check = Return(IF k >= 1 THEN k - 1 ELSE 0)

\* A password with a character of no class and a repeated character, of
\* two classes.
C4_Witness ==
    /\ Constructed(1)
    /\ " " \in SetOf(Pwd(1))
    /\ Cardinality(SetOf(Pwd(1))) < Len(Pwd(1))
    /\ ClassesPresent(Pwd(1)) = 2
    /\ results[1].character_check = Return(1)

\* C5: repeat_check returns 2 exactly for the empty password, 0 exactly when
\* three consecutive characters are equal, and 1 otherwise.
C5_RepeatTriples ==
    \A c \in CheckerIds :
        (Constructed(c) /\ Called(results[c].repeat_check)) =>
            LET p == Pwd(c)
                r == results[c].repeat_check
            IN  /\ r.tag = "return" /\ r.val \in {0, 1, 2}
                /\ r.val = 2 <=> p = <<>>
                /\ p # <<>> =>
                      (r.val = 0 <=>
                          \E i \in 1..(Len(p) - 2) : p[i] = p[i + 1] /\ p[i + 1] = p[i + 2])
                /\ Len(p) \in {1, 2} => r.val = 1

\* A triple that does not start the password, found.
C5_Witness ==
    /\ Constructed(1) /\ Len(Pwd(1)) >= 4
    /\ Pwd(1)[1] # Pwd(1)[2]
    /\ results[1].repeat_check = Return(0)

-----------------------------------------------------------------------------
(* Claims about the window's display, under Spec.                          *)

\* What row i (0..3) shows: its bar and its checkbox.
Shown(i) == [bar |-> Item(CONTROLS, i).bar, box |-> Item(STATUS, i).box]
Ticked(i) == Item(STATUS, i).box = [opacity |-> 1, value |-> "True"]

\* What a pass/fail row shows for score 0 and for the top tier.
FailShown ==
    [bar |-> [bgcolor |-> "RED", width |-> 65, opacity |-> 1],
     box |-> [opacity |-> 0, value |-> "False"]]
TopShown ==
    [bar |-> [bgcolor |-> "GREEN_900", width |-> 130, opacity |-> 1],
     box |-> [opacity |-> 1, value |-> "True"]]

\* C6: after a password-change event the length and character checkboxes
\* are ticked exactly for score 3, the repeat and sequential checkboxes
\* exactly for score 1 (passed on as 3), and for score 2 the row shows a
\* state that is neither the one of score 0 nor the one of the top tier.
C6_RemappedIndicators ==
    event # None =>
        /\ \A i \in {0, 1} : Ticked(i) <=> Item(event.scores, i) = Return(3)
        /\ \A i \in {2, 3} :
              /\ Ticked(i) <=> Item(event.scores, i) = Return(1)
              /\ Item(event.scores, i) = Return(0) => Shown(i) = FailShown
              /\ Item(event.scores, i) = Return(1) => Shown(i) = TopShown
              /\ Item(event.scores, i) = Return(2) =>
                    Shown(i) \notin {FailShown, TopShown}

\* The repeat row ticked for score 1 while the length row, of score 1 too,
\* is not.
C6_Witness ==
    /\ event # None
    /\ Item(event.scores, 0) = Return(1) /\ ~Ticked(0)
    /\ Item(event.scores, 2) = Return(1) /\ Ticked(2)

Attached(s) ==
    win[s] # None /\ win[s].password_field # None /\ win[s].page # None

ViewState(w) == <<w.show_password, w.password_field.password, w.eye_icon>>

ViewConsistent(w) ==
    /\ w.password_field.password = ~w.show_password
    /\ w.eye_icon = IF w.show_password THEN "VISIBILITY" ELSE "VISIBILITY_OFF"

\* C10: once page and field are set, the field is masked exactly when
\* show_password is false and the eye icon is VISIBILITY exactly when it is
\* true; toggling twice restores the window; and a step that changes any of
\* the three is a toggle_view, which flips show_password.
C10_ToggleView ==
    /\ [](\A s \in Sessions :
            Attached(s) =>
                /\ ViewConsistent(win[s])
                /\ ViewConsistent(toggle_view(win[s]))
                /\ toggle_view(win[s]).show_password = ~win[s].show_password
                /\ toggle_view(toggle_view(win[s])) = win[s])
    /\ [][\A s \in Sessions :
            (Attached(s) /\ ViewState(win'[s]) # ViewState(win[s])) =>
                /\ win'[s] = toggle_view(win[s])
                /\ win'[s].show_password = ~win[s].show_password]_vars

\* The password shown, after a password change and a copy.
C10_Witness ==
    /\ Attached(1)
    /\ win[1].show_password /\ ~win[1].password_field.password
    /\ win[1].eye_icon = "VISIBILITY"
    /\ event # None
    /\ page[1].clipboard = Str(Top16)

-----------------------------------------------------------------------------
(* Claim about the registries, under SpecSessions.                         *)

Begun == {s \in Sessions : ~At(s, "idle")}

InitialBar == [bgcolor |-> "TRANSPARENT", width |-> 0, opacity |-> 0]
InitialBox == [opacity |-> 0, value |-> "None"]

\* The rows of a list keep their place: the list only grows at its end.
KeepsRows(old, new) ==
    /\ Len(new) >= Len(old)
    /\ \A j \in 1..Len(old) :
          new[j].window = old[j].window /\ new[j].check = old[j].check

\* C9: the registries are append-only and positional.  A criteria call
\* appends one row to CONTROLS only, a status call one row to STATUS only;
\* no step removes or reorders rows; with k windows constructed both lists
\* hold 4k rows, row i of the first window being that of check i; and a
\* password-change event changes rows 0..3 only.
C9_Registries ==
    /\ [](/\ Quiet => /\ Len(CONTROLS) = 4 * Cardinality(Begun)
                      /\ Len(STATUS) = 4 * Cardinality(Begun)
          /\ \A j \in 0..(Len(CONTROLS) - 1) :
                /\ Item(CONTROLS, j).window = (j \div 4) + 1
                /\ Item(CONTROLS, j).check = j % 4
                /\ j >= 4 => Item(CONTROLS, j).bar = InitialBar
          /\ \A j \in 0..(Len(STATUS) - 1) :
                /\ Item(STATUS, j).window = (j \div 4) + 1
                /\ Item(STATUS, j).check = j % 4
                /\ j >= 4 => Item(STATUS, j).box = InitialBox)
    /\ [][/\ KeepsRows(CONTROLS, CONTROLS') /\ KeepsRows(STATUS, STATUS')
          /\ \A s \in Sessions :
                (At(s, "password_strength_display") /\ pc'[s] # pc[s]) =>
                    IF pc[s].n % 2 = 0
                    THEN /\ Len(CONTROLS') = Len(CONTROLS) + 1
                         /\ SubSeq(CONTROLS', 1, Len(CONTROLS)) = CONTROLS
                         /\ STATUS' = STATUS
                    ELSE /\ Len(STATUS') = Len(STATUS) + 1
                         /\ SubSeq(STATUS', 1, Len(STATUS)) = STATUS
                         /\ CONTROLS' = CONTROLS
          /\ event' # event =>
                /\ Len(CONTROLS') = Len(CONTROLS) /\ Len(STATUS') = Len(STATUS)
                /\ \A j \in 4..(Len(CONTROLS) - 1) :
                      Item(CONTROLS', j) = Item(CONTROLS, j)
                /\ \A j \in 4..(Len(STATUS) - 1) :
                      Item(STATUS', j) = Item(STATUS, j)]_vars

\* Two windows; the password was typed into the second (the first one's
\* field holds no such text), and the first window's rows show it.
C9_Witness ==
    /\ Cardinality(Begun) = 2 /\ Quiet
    /\ Len(CONTROLS) = 8 /\ Len(STATUS) = 8
    /\ win[2].password_field.value = Str(Top16)
    /\ win[1].password_field.value = None
    /\ event # None /\ event.data = Str(Top16)
    /\ \A i \in 0..3 : Item(STATUS, i).window = 1 /\ Ticked(i)
    /\ \A i \in 4..7 : Item(STATUS, i).window = 2 /\ ~Ticked(i)

-----------------------------------------------------------------------------
(* Claim about missing input, under SpecNull.                              *)

EmptyScores == <<Return(0), Return(0), Return(2), Return(2)>>

IsScore(r) == r.tag = "return" /\ r.val \in 0..3

\* C7: a missing password is the empty string: a checker made from None or
\* "" stores "" and scores 0, 0, 2, 2, an event without data is scored the
\* same, and every check of every checker and event returns a score.
C7_MissingIsEmpty ==
    /\ \A c \in CheckerIds :
          Constructed(c) =>
              /\ \A k \in 1..4 : Called(Scores(c)[k]) => IsScore(Scores(c)[k])
              /\ results[c].arg \in {None, Str(<<>>)} =>
                    /\ checker[c].password = Str(<<>>)
                    /\ \A k \in 1..4 :
                          Called(Scores(c)[k]) => Scores(c)[k] = EmptyScores[k]
    /\ event # None =>
          /\ \A k \in 1..4 : IsScore(event.scores[k])
          /\ event.data \in {None, Str(<<>>)} => event.scores = EmptyScores

C7_Witness ==
    /\ Constructed(1) /\ results[1].arg = None
    /\ Scores(1) = EmptyScores
    /\ event # None /\ event.data = None /\ event.scores = EmptyScores

-----------------------------------------------------------------------------
(* Claim about purity, under SpecPure.                                     *)

CheckNames == {"length_check", "character_check", "repeat_check", "sequential_check"}

====
